---- MODULE Spec2Model ----
(***************************************************************************)
(* State-machine model of the Rokesuma scraper: scrape_locations and its   *)
(* helpers (src/scraper.py, src/utils.py, src/selectors.py).               *)
(*                                                                         *)
(* Conventions.  A Python str is a sequence of one-character tokens, "" is *)
(* <<>>.  An Optional value is <<>> (None) or <<v>>.  A page operation     *)
(* that can raise is answered by the environment with a value or with the  *)
(* token "raise".  Non-ASCII text of the source is written with ASCII      *)
(* stand-ins that are named where they are defined.                        *)
(***************************************************************************)
EXTENDS Integers, Sequences, FiniteSets, TLC

VARIABLES
    pc,            \* position of the run inside scrape_locations
    kw,            \* keyword by which the caller passes the item cap
    site,          \* "steady" | "flaky": how the site starts up (see Init)
    zoom,          \* parameter zoom
    categories,    \* parameter categories
    max_items,     \* parameter max_items
    session,       \* "none" | "open" | "closed": the sync_playwright() context
    logs,          \* logs: List[str], one tag per line that scrape_locations
                   \* appends itself (the lines its helpers append are left out)
    origin,        \* <<origin_lat, origin_lng>>, each Optional
    current_zoom,  \* local current_zoom (Optional int)
    ci,            \* index of the category being processed (1-based)
    marker_count,  \* local marker_count
    idx,           \* loop variable idx of "for idx in range(marker_count)"
    data_records,  \* data_records: List[Dict]
    visits,        \* history: <<ci, idx, outcome>> per marker the loop handled
    entered,       \* history: len(data_records) when each category was entered
    applied,       \* history: how each category's filter step ended
    outcome,       \* "none" | "returned" | "raised": how the call ended
    dataframe,     \* rows of the returned ScrapeResult.dataframe
    columns,       \* column labels of the returned ScrapeResult.dataframe
    opAfterClose,  \* history: a page operation was issued on a closed session
    rows,          \* dedup harness: the collected rows handed to the dedup
    unique,        \* dedup harness: the rows after the dedup
    dpc,           \* dedup harness: "off" | "in" | "out"
    panel_page,    \* panel harness: what the page answers to parse_detail_panel
    panel_origin,  \* panel harness: <<origin_lat, origin_lng>> passed in
    panel_out,     \* panel harness: what parse_detail_panel produced
    ppc,           \* panel harness: "off" | "in" | "out"
    zoom_pair,     \* zoom harness: the zoom arguments of two runs
    zoom_page,     \* zoom harness: how the map answers both runs
    zoom_ops,      \* zoom harness: the page operations each run issued
    zpc,           \* zoom harness: "off" | "in" | "out"
    text_chain,    \* text harness: what the page answers per selector
    text_out,      \* text harness: what safe_get_text returned and queried
    tpc,           \* text harness: "off" | "in" | "out"
    mk_pc,         \* marker harness: position in one category's marker phase
    mk_count,      \* marker harness: marker_count
    mk_won,        \* marker harness: the selector that gave marker_count
    mk_idx,        \* marker harness: loop variable idx
    mk_ops,        \* marker harness: the page operations issued so far
    mk_visits,     \* marker harness: <<idx, outcome>> per index handled
    ex_lines,      \* extract harness: the lines of the text handed in
    ex_out,        \* extract harness: what extract_hours/extract_address gave
    epc,           \* extract harness: "off" | "in" | "out"
    lp_pc,         \* zoom-loop harness: the statement of the zoom block next
    lp_zoom,       \* zoom-loop harness: parameter zoom
    lp_current,    \* zoom-loop harness: local current_zoom (Optional int)
    lp_map         \* zoom-loop harness: how the map takes a zoom click

vars == <<pc, kw, site, zoom, categories, max_items, session, logs, origin,
          current_zoom, ci, marker_count, idx, data_records, visits, entered,
          applied, outcome, dataframe, columns, opAfterClose, rows, unique,
          dpc,
          panel_page, panel_origin, panel_out, ppc, zoom_pair, zoom_page,
          zoom_ops, zpc, text_chain, text_out, tpc, mk_pc, mk_count, mk_won,
          mk_idx, mk_ops, mk_visits, ex_lines, ex_out, epc, lp_pc, lp_zoom,
          lp_current, lp_map>>

runVars == <<pc, kw, site, zoom, categories, max_items, session, logs, origin,
             current_zoom, ci, marker_count, idx, data_records, visits,
             entered, applied, outcome, dataframe, columns, opAfterClose>>

dedupVars == <<rows, unique, dpc>>

panelVars == <<panel_page, panel_origin, panel_out, ppc>>

zoomVars == <<zoom_pair, zoom_page, zoom_ops, zpc>>

textVars == <<text_chain, text_out, tpc>>

markerVars == <<mk_pc, mk_count, mk_won, mk_idx, mk_ops, mk_visits>>

extractVars == <<ex_lines, ex_out, epc>>

loopVars == <<lp_pc, lp_zoom, lp_current, lp_map>>

(***************************************************************************)
(* Bounds of the model.                                                    *)
(***************************************************************************)
MaxMarkers == 2    \* most elements a marker query returns
MaxCap == 2        \* largest max_items argument
MaxRows == 3       \* longest row list of the dedup harness

None == <<>>
Some(v) == <<v>>

(***************************************************************************)
(* Records (the dict built by parse_detail_panel plus the two fields added *)
(* by scrape_locations).  Column names: name = "店舗名", phone = "電話番号",  *)
(* address = "住所", hours = "営業時間", lat = "緯度", lng = "経度",          *)
(* dist_m = "距離_m", dist_km = "距離_km", category = "カテゴリ",             *)
(* capturedAt = "取得時刻".  np.nan is the absent Optional <<>>.            *)
(***************************************************************************)
MkRecord(name, phone, address, hours, lat, lng, dm, dkm) ==
    [name |-> name, phone |-> phone, address |-> address, hours |-> hours,
     lat |-> lat, lng |-> lng, dist_m |-> dm, dist_km |-> dkm]

Tag(rec, cat, at) ==
    [name |-> rec.name, phone |-> rec.phone, address |-> rec.address,
     hours |-> rec.hours, lat |-> rec.lat, lng |-> rec.lng,
     dist_m |-> rec.dist_m, dist_km |-> rec.dist_km,
     category |-> cat, capturedAt |-> at]

(***************************************************************************)
(* normalize_key: imported by scraper.py from utils, whose definition is   *)
(* not part of the sources; modelled from the specification's data model:  *)
(* "Unicode width-folded, lower-cased, whitespace-trimmed".                *)
(* Tokens: "FA" is the full-width letter A (U+FF21), "SP" is a space.      *)
(***************************************************************************)
WidthFold(c) == IF c = "FA" THEN "A" ELSE c

LowerCase(c) ==
    CASE c = "A" -> "a"
      [] c = "B" -> "b"
      [] c = "C" -> "c"
      [] OTHER -> c

RECURSIVE LStrip(_)
LStrip(s) == IF s # <<>> /\ Head(s) = "SP" THEN LStrip(Tail(s)) ELSE s

RECURSIVE RStrip(_)
RStrip(s) ==
    IF s # <<>> /\ s[Len(s)] = "SP" THEN RStrip(SubSeq(s, 1, Len(s) - 1)) ELSE s

Strip(s) == RStrip(LStrip(s))

normalize_key(s) == Strip([i \in 1..Len(s) |-> LowerCase(WidthFold(s[i]))])

(***************************************************************************)
(* Deduplication, scraper.py 490-495.                                      *)
(***************************************************************************)
\* df["_key"] = df[name] + df[address]
Key(r) == r.name \o r.address

\* df["_key_norm"] = df["_key"].apply(normalize_key)
KeyNorm(r) == normalize_key(Key(r))

\* the rows whose index is in keep, in their order, from index i on
RECURSIVE KeepRows(_, _, _)
KeepRows(rs, keep, i) ==
    IF i > Len(rs) THEN <<>>
    ELSE (IF i \in keep THEN <<rs[i]>> ELSE <<>>) \o KeepRows(rs, keep, i + 1)

\* a plausible slip: drop_duplicates(..., keep="last")
DropDuplicatesKeepLast(rs) ==
    KeepRows(rs, {i \in 1..Len(rs) :
                    \A j \in (i + 1)..Len(rs) : KeyNorm(rs[j]) # KeyNorm(rs[i])},
             1)

\* df.drop_duplicates(subset="_key_norm"): keep="first" is the default
DropDuplicates(rs) ==
    KeepRows(rs, {i \in 1..Len(rs) :
                    \A j \in 1..(i - 1) : KeyNorm(rs[j]) # KeyNorm(rs[i])},
             1)

\* "if not df.empty: ... drop_duplicates ..."
Deduplicate(rs) == IF rs = <<>> THEN <<>> ELSE DropDuplicates(rs)

(***************************************************************************)
(* Dedup harness: the dedup applied to every bounded row list.             *)
(***************************************************************************)
DedupNames == {<<"A">>, <<"a">>, <<"FA">>, <<"A", "B">>}
DedupAddresses == {<<>>, <<"B">>, <<"SP">>}
DedupCategories == <<"conbini", "hospital">>

DedupRow(name, address, i) ==
    Tag(MkRecord(name, <<>>, address, <<>>, None, None, None, None),
        DedupCategories[1 + (i % 2)], i)

RunIdle ==
    /\ pc = "idle" /\ kw = "max_items" /\ site = "steady" /\ zoom = 0 /\ categories = <<>>
    /\ max_items = 0 /\ session = "none" /\ logs = <<>>
    /\ origin = <<None, None>> /\ current_zoom = None /\ ci = 0
    /\ marker_count = 0 /\ idx = 0 /\ data_records = <<>> /\ visits = <<>>
    /\ entered = <<>> /\ applied = <<>> /\ outcome = "none"
    /\ dataframe = <<>> /\ columns = <<>> /\ opAfterClose = FALSE

PanelIdle ==
    panel_page = <<>> /\ panel_origin = <<>> /\ panel_out = <<>> /\ ppc = "off"

DedupIdle == rows = <<>> /\ unique = <<>> /\ dpc = "off"

ZoomIdle ==
    zoom_pair = <<>> /\ zoom_page = <<>> /\ zoom_ops = <<>> /\ zpc = "off"

TextIdle == text_chain = <<>> /\ text_out = <<>> /\ tpc = "off"

ExtractIdle == ex_lines = <<>> /\ ex_out = <<>> /\ epc = "off"

LoopIdle ==
    lp_pc = "off" /\ lp_zoom = 0 /\ lp_current = <<>> /\ lp_map = "none"

MarkerIdle ==
    /\ mk_pc = "off" /\ mk_count = 0 /\ mk_won = 0 /\ mk_idx = 0
    /\ mk_ops = <<>> /\ mk_visits = <<>>

DedupInit ==
    /\ RunIdle
    /\ PanelIdle
    /\ ZoomIdle
    /\ TextIdle
    /\ MarkerIdle
    /\ LoopIdle
    /\ ExtractIdle
    /\ dpc = "in"
    /\ unique = <<>>
    /\ \E n \in 0..MaxRows :
         \E f \in [1..n -> DedupNames \X DedupAddresses] :
           rows = [i \in 1..n |-> DedupRow(f[i][1], f[i][2], i)]

ApplyDedup ==
    /\ dpc = "in"
    /\ unique' = Deduplicate(rows)
    /\ dpc' = "out"
    /\ UNCHANGED <<rows, runVars, panelVars, zoomVars, textVars, markerVars, extractVars, loopVars>>

DedupNext == ApplyDedup

DedupSpec == DedupInit /\ [][DedupNext]_vars

(***************************************************************************)
(* C1: the dedup is first-seen-wins.  For every row list, and every        *)
(* normalized name+address key occurring in it, the result holds exactly   *)
(* one row with that key, and that row is the first row of the list that   *)
(* carries the key, whatever the later rows with that key hold elsewhere.  *)
(***************************************************************************)
FirstWith(rs, k) == CHOOSE i \in 1..Len(rs) :
    /\ KeyNorm(rs[i]) = k
    /\ \A j \in 1..(i - 1) : KeyNorm(rs[j]) # k

C1_FirstSeenWins ==
    dpc = "out" =>
        \A i \in 1..Len(rows) :
            LET k == KeyNorm(rows[i])
                hits == {u \in 1..Len(unique) : KeyNorm(unique[u]) = k}
            IN  /\ Cardinality(hits) = 1
                /\ \A u \in hits : unique[u] = rows[FirstWith(rows, k)]

\* a later duplicate that differs from the first in other fields was dropped
C1_Witness ==
    /\ dpc = "out"
    /\ \E i, j \in 1..Len(rows) :
         /\ i < j
         /\ KeyNorm(rows[i]) = KeyNorm(rows[j])
         /\ rows[i].name # rows[j].name
         /\ rows[i].category # rows[j].category
    /\ Len(unique) < Len(rows)
    /\ Len(unique) > 1

(***************************************************************************)
(* Text helpers.  Tokens: "NL" is a newline, "SP" a space; "ken", "fu",    *)
(* "shi", "ku", "machi", "mura" stand for the kanji of src/utils.py:48     *)
(* and "ji" for the kanji of src/utils.py:63.                              *)
(***************************************************************************)
Min(S) == CHOOSE x \in S : \A y \in S : x <= y

IsSpace(c) == c \in {"SP", "NL"}

RECURSIVE LStripWs(_)
LStripWs(s) == IF s # <<>> /\ IsSpace(Head(s)) THEN LStripWs(Tail(s)) ELSE s

RECURSIVE RStripWs(_)
RStripWs(s) ==
    IF s # <<>> /\ IsSpace(s[Len(s)])
    THEN RStripWs(SubSeq(s, 1, Len(s) - 1)) ELSE s

\* str.strip()
StripWs(s) == RStripWs(LStripWs(s))

Contains(s, c) == \E i \in 1..Len(s) : s[i] = c

\* the text before the first newline: s.split("\n")[0]
FirstSegment(s) ==
    IF Contains(s, "NL")
    THEN SubSeq(s, 1, Min({i \in 1..Len(s) : s[i] = "NL"}) - 1)
    ELSE s

\* str.splitlines(): no empty last line after a final newline
RECURSIVE SplitLines(_)
SplitLines(s) ==
    IF s = <<>> THEN <<>>
    ELSE IF Contains(s, "NL")
         THEN LET n == Min({i \in 1..Len(s) : s[i] = "NL"})
              IN  <<SubSeq(s, 1, n - 1)>> \o SplitLines(SubSeq(s, n + 1, Len(s)))
         ELSE <<s>>

Digits == {"0", "1", "2", "3", "4", "5", "6", "7", "8", "9"}

DigitVal(c) ==
    CASE c = "0" -> 0 [] c = "1" -> 1 [] c = "2" -> 2 [] c = "3" -> 3
      [] c = "4" -> 4 [] c = "5" -> 5 [] c = "6" -> 6 [] c = "7" -> 7
      [] c = "8" -> 8 [] c = "9" -> 9

AllDigits(s, i, n) ==
    /\ i + n - 1 <= Len(s)
    /\ \A j \in i..(i + n - 1) : s[j] \in Digits

At(s, i, c) == i <= Len(s) /\ s[i] = c

\* _PHONE_RE = \d{2,4}-\d{2,4}-\d{3,4} matched at position i with group
\* lengths a, b, c
PhoneAt(s, i, a, b, c) ==
    /\ AllDigits(s, i, a)
    /\ At(s, i + a, "-")
    /\ AllDigits(s, i + a + 1, b)
    /\ At(s, i + a + b + 1, "-")
    /\ AllDigits(s, i + a + b + 2, c)

\* extract_phone: the leftmost match, each quantifier greedy
extract_phone(text) ==
    LET starts == {i \in 1..Len(text) :
                     \E a \in 2..4, b \in 2..4, c \in 3..4 :
                        PhoneAt(text, i, a, b, c)}
    IN  IF text = <<>> \/ starts = {} THEN <<>>
        ELSE LET i == Min(starts)
                 Max(S) == CHOOSE x \in S : \A y \in S : x >= y
                 a == Max({x \in 2..4 : \E b \in 2..4, c \in 3..4 :
                                            PhoneAt(text, i, x, b, c)})
                 b == Max({x \in 2..4 : \E c \in 3..4 :
                                            PhoneAt(text, i, a, x, c)})
                 c == Max({x \in 3..4 : PhoneAt(text, i, a, b, x)})
             IN  SubSeq(text, i, i + a + b + c + 1)

DivisionTokens == {"ken", "fu", "shi", "ku", "machi", "mura"}

\* the first of the lines whose index is in hits, stripped; "" without one
FirstLine(lines, hits) ==
    IF hits = {} THEN <<>> ELSE StripWs(lines[Min(hits)])

\* the indices of the lines that hold a token of toks
LinesWith(lines, toks) ==
    {i \in 1..Len(lines) : \E k \in 1..Len(lines[i]) : lines[i][k] \in toks}

\* a plausible slip: a line qualifies only if it also holds a digit
extract_address_with_digit(text) ==
    FirstLine(SplitLines(text),
              {i \in LinesWith(SplitLines(text), DivisionTokens) :
                 \E k \in 1..Len(SplitLines(text)[i]) :
                    SplitLines(text)[i][k] \in Digits})

\* extract_address
extract_address(text) ==
    FirstLine(SplitLines(text), LinesWith(SplitLines(text), DivisionTokens))

Upper(c) ==
    CASE c = "a" -> "A" [] c = "p" -> "P" [] c = "m" -> "M" [] OTHER -> c

HasPair(line, x, y) ==
    \E i \in 1..(Len(line) - 1) : Upper(line[i]) = x /\ Upper(line[i + 1]) = y

\* a plausible slip: "AM" and "PM" looked for in the line as it is, without
\* upper()
HoursLinesExact(lines) ==
    {i \in 1..Len(lines) :
        \/ Contains(lines[i], "ji")
        \/ \E k \in 1..(Len(lines[i]) - 1) :
              lines[i][k] \in {"A", "P"} /\ lines[i][k + 1] = "M"}

\* extract_hours
HoursLines(lines) ==
    {i \in 1..Len(lines) : \/ Contains(lines[i], "ji")
                            \/ HasPair(lines[i], "A", "M")
                            \/ HasPair(lines[i], "P", "M")}

extract_hours(text) == FirstLine(SplitLines(text), HoursLines(SplitLines(text)))

(***************************************************************************)
(* Extract harness: extract_hours and extract_address applied to every     *)
(* text of up to MaxLines lines.  "ji" stands for the character of         *)
(* src/utils.py 62, the tokens of DivisionTokens for those of line 48.     *)
(***************************************************************************)
MaxLines == 2

ExtractLines ==
    { <<"1", "0", ":", "0", "0", "-", "2", "0", ":", "0", "0">>,
      <<"SP", "9", "ji">>,
      <<"8", "p", "m">>,
      <<"Y", "ku", "2", "SP">>,
      <<"SP", "Z", "shi">>,
      <<"X">>,
      <<>> }

\* "\n".join(lines)
RECURSIVE JoinLines(_)
JoinLines(lines) ==
    IF lines = <<>> THEN <<>>
    ELSE IF Len(lines) = 1 THEN lines[1]
    ELSE lines[1] \o <<"NL">> \o JoinLines(Tail(lines))

ExtractInit ==
    /\ RunIdle
    /\ DedupIdle
    /\ PanelIdle
    /\ ZoomIdle
    /\ TextIdle
    /\ MarkerIdle
    /\ LoopIdle
    /\ epc = "in"
    /\ ex_out = <<>>
    /\ ex_lines \in UNION { [1..n -> ExtractLines] : n \in 0..MaxLines }

ApplyExtract ==
    /\ epc = "in"
    /\ ex_out' = [hours |-> extract_hours(JoinLines(ex_lines)),
                  address |-> extract_address(JoinLines(ex_lines))]
    /\ epc' = "out"
    /\ UNCHANGED <<ex_lines, runVars, dedupVars, panelVars, zoomVars, textVars,
                   markerVars, loopVars>>

ExtractNext == ApplyExtract

ExtractSpec == ExtractInit /\ [][ExtractNext]_vars

(***************************************************************************)
(* Numbers.  A float is an integer count of tenths of a degree.  float()   *)
(* of a str over the tokens digits, "-", "." and letters: an optional      *)
(* leading "-", digits with at most one ".", at least one digit; anything  *)
(* else raises ValueError (None here).  The literals of the input sets     *)
(* carry at most one fractional digit, so the value is exact.              *)
(***************************************************************************)
RECURSIVE IntOf(_)
IntOf(ds) ==
    IF ds = <<>> THEN 0
    ELSE 10 * IntOf(SubSeq(ds, 1, Len(ds) - 1)) + DigitVal(ds[Len(ds)])

FloatOf(s) ==
    LET neg  == s # <<>> /\ Head(s) = "-"
        body == IF neg THEN Tail(s) ELSE s
        dots == {i \in 1..Len(body) : body[i] = "."}
        ok   == /\ \A i \in 1..Len(body) : body[i] \in Digits \cup {"."}
                /\ Cardinality(dots) <= 1
                /\ \E i \in 1..Len(body) : body[i] \in Digits
        d    == IF dots = {} THEN Len(body) + 1 ELSE Min(dots)
        ip   == SubSeq(body, 1, d - 1)
        fp   == SubSeq(body, d + 1, Len(body))
        mag  == 10 * IntOf(ip) + (IF fp = <<>> THEN 0 ELSE DigitVal(fp[1]))
    IN  IF ~ok THEN None ELSE Some(IF neg THEN 0 - mag ELSE mag)

CoordClass == Digits \cup {"-", "."}

\* length of the longest run of [-\d\.] characters that starts at i
RECURSIVE ClassRun(_, _)
ClassRun(s, i) ==
    IF i <= Len(s) /\ s[i] \in CoordClass THEN 1 + ClassRun(s, i + 1) ELSE 0

\* re.search(r"@([-\d\.]+),([-\d\.]+)", url): None or <<group 1, group 2>>
AtPattern(url) ==
    LET hit(i) == LET r1 == ClassRun(url, i + 1)
                  IN  /\ url[i] = "@"
                      /\ r1 > 0
                      /\ At(url, i + 1 + r1, ",")
                      /\ ClassRun(url, i + 2 + r1) > 0
        starts == {i \in 1..Len(url) : hit(i)}
    IN  IF starts = {} THEN None
        ELSE LET i  == Min(starts)
                 r1 == ClassRun(url, i + 1)
                 r2 == ClassRun(url, i + 2 + r1)
             IN  Some(<<SubSeq(url, i + 1, i + r1),
                        SubSeq(url, i + 2 + r1, i + 1 + r1 + r2)>>)

(***************************************************************************)
(* haversine_distance, utils.py 100-119.  The trigonometry is replaced by  *)
(* an integer surrogate on tenths of a degree that keeps what the callers  *)
(* rely on: a total function of the two points, zero exactly when they     *)
(* coincide, symmetric; kilometres are metres / 1000.                      *)
(***************************************************************************)
MetresPerTenth == 11119

Abs(x) == IF x < 0 THEN 0 - x ELSE x

haversine_distance(lat1, lon1, lat2, lon2) ==
    LET m == MetresPerTenth * (Abs(lat2 - lat1) + Abs(lon2 - lon1))
    IN  <<m, m \div 1000>>

(***************************************************************************)
(* What a page answers.  A query_selector + inner_text answer is an entry  *)
(* [kind, text]: "none" (no element), "raise" (the query or the read       *)
(* raised) or "elem" with the element's inner text.                        *)
(***************************************************************************)
Miss == [kind |-> "none", text |-> <<>>]
Raises == [kind |-> "raise", text |-> <<>>]
Elem(t) == [kind |-> "elem", text |-> t]

\* a plausible slip: the test "if text:" left out, so that the first element
\* found answers even when its stripped text is empty
safe_get_text_first_element(entries) ==
    LET hits == {i \in 1..Len(entries) : entries[i].kind = "elem"}
    IN  IF hits = {} THEN None ELSE Some(StripWs(entries[Min(hits)].text))

\* safe_get_text: the stripped text of the first entry of the chain that is
\* an element with non-empty stripped text, else None
safe_get_text(entries) ==
    LET hits == {i \in 1..Len(entries) :
                    /\ entries[i].kind = "elem"
                    /\ StripWs(entries[i].text) # <<>>}
    IN  IF hits = {} THEN None ELSE Some(StripWs(entries[Min(hits)].text))

\* the selectors safe_get_text queries, in order: the loop "for sel in
\* selectors" from position k on, left by the return inside it
RECURSIVE selector_queries(_, _)
selector_queries(entries, k) ==
    IF k > Len(entries) THEN <<>>
    ELSE IF entries[k].kind = "elem" /\ StripWs(entries[k].text) # <<>>
         THEN <<k>>
         ELSE <<k>> \o selector_queries(entries, k + 1)

NameLimit == 100

\* full_text = page.inner_text("body"), "" when it raises
FullText(page) == IF page.body.kind = "raise" THEN <<>> ELSE page.body.text

\* the store name: selector chain, else the first line of the page text
NameField(page) ==
    LET sel  == safe_get_text(page.name)
        text == FullText(page)
        first_line == IF text # <<>> THEN FirstSegment(StripWs(text)) ELSE <<>>
    IN  IF sel # None
        THEN [value |-> sel[1], logs |-> <<"selector">>]
        ELSE [value |-> SubSeq(first_line, 1,
                               IF Len(first_line) < NameLimit
                               THEN Len(first_line) ELSE NameLimit),
              logs |-> <<"name_fallback">>]

\* phone, address, hours: selector chain, else what the regex extracted
\* from the page text
TextField(page, chain, extracted, tag) ==
    LET sel == safe_get_text(chain)
    IN  IF sel # None
        THEN [value |-> sel[1], logs |-> <<"selector">>]
        ELSE IF FullText(page) # <<>>
             THEN [value |-> extracted,
                   logs |-> IF extracted # <<>> THEN <<tag>> ELSE <<>>]
             ELSE [value |-> <<>>, logs |-> <<>>]

(***************************************************************************)
(* Coordinates, scraper.py 180-224.  An attribute answer is an entry       *)
(* [kind, lat, lng] with lat, lng the Optional strings of data-lat and     *)
(* data-lng; an evaluate answer is [kind, v]: "raise", "null" or "num".    *)
(***************************************************************************)
AttrMiss == [kind |-> "none", lat |-> None, lng |-> None]
AttrRaises == [kind |-> "raise", lat |-> None, lng |-> None]
AttrElem(la, ln) == [kind |-> "elem", lat |-> la, lng |-> ln]

Truthy(optstr) == optstr # None /\ optstr[1] # <<>>

\* the loop over the three attribute selectors
RECURSIVE AttrLoop(_, _, _, _)
AttrLoop(es, i, lat, lng) ==
    IF i > Len(es) THEN [lat |-> lat, lng |-> lng, hit |-> FALSE]
    ELSE LET e == es[i]
         IN  IF e.kind # "elem" \/ ~Truthy(e.lat) \/ ~Truthy(e.lng)
             THEN AttrLoop(es, i + 1, lat, lng)
             ELSE LET f1 == FloatOf(e.lat[1])
                      f2 == FloatOf(e.lng[1])
                  IN  IF f1 = None THEN AttrLoop(es, i + 1, lat, lng)
                      ELSE IF f2 = None THEN AttrLoop(es, i + 1, f1, lng)
                      ELSE [lat |-> f1, lng |-> f2, hit |-> TRUE]

EvalNull == [kind |-> "null", v |-> 0]
EvalRaises == [kind |-> "raise", v |-> 0]
EvalNum(n) == [kind |-> "num", v |-> n]

EvalValue(e) == IF e.kind = "num" THEN Some(e.v) ELSE None

\* the two page.evaluate calls on the map centre inside one try
CentreQuery(centre) ==
    IF centre[1].kind = "raise" \/ centre[2].kind = "raise"
    THEN [lat |-> None, lng |-> None, hit |-> FALSE]
    ELSE [lat |-> EvalValue(centre[1]), lng |-> EvalValue(centre[2]),
          hit |-> centre[1].kind = "num" /\ centre[2].kind = "num"]

\* haversine_distance with its try/except: an argument that is None makes
\* math.radians raise, and the except branch returns (0.0, 0.0)
haversine(olat, olng, lat, lng) ==
    IF olat = None \/ olng = None \/ lat = None \/ lng = None
    THEN <<0, 0>>
    ELSE haversine_distance(olat[1], olng[1], lat[1], lng[1])

\* a plausible slip: the guard forgets the origin
DistanceNoOriginCheck(lat, lng, olat, olng) ==
    IF lat # None /\ lng # None
    THEN LET d == haversine(olat, olng, lat, lng)
         IN  <<Some(d[1]), Some(d[2])>>
    ELSE <<None, None>>

\* scraper.py 226-233: the two distance fields
Distance(lat, lng, olat, olng) ==
    IF lat # None /\ lng # None /\ olat # None /\ olng # None
    THEN LET d == haversine(olat, olng, lat, lng)
         IN  <<Some(d[1]), Some(d[2])>>
    ELSE <<None, None>>

\* scraper.py 202-209: the "@lat,lng" segment of the URL, read when the
\* attributes left a coordinate unset; float() of a segment that is not a
\* number raises out of parse_detail_panel
UrlFloats(g1, g2) ==
    [lat |-> g1, lng |-> g2, used |-> TRUE,
     hit |-> g1 # None /\ g2 # None, raised |-> g1 = None \/ g2 = None]

\* a plausible slip: the guard "if lat is None or lng is None" left out
UrlCoordsUnguarded(a, m) ==
    IF m = None
    THEN [lat |-> a.lat, lng |-> a.lng, used |-> TRUE, hit |-> FALSE,
          raised |-> FALSE]
    ELSE UrlFloats(FloatOf(m[1][1]), FloatOf(m[1][2]))

UrlCoords(a, m) ==
    IF a.lat # None /\ a.lng # None
    THEN [lat |-> a.lat, lng |-> a.lng, used |-> FALSE, hit |-> FALSE,
          raised |-> FALSE]
    ELSE IF m = None
         THEN [lat |-> a.lat, lng |-> a.lng, used |-> TRUE, hit |-> FALSE,
               raised |-> FALSE]
         ELSE UrlFloats(FloatOf(m[1][1]), FloatOf(m[1][2]))

\* scraper.py 211-221: the map centre, read when a coordinate is still unset
CentreCoords(u, c) ==
    IF u.raised \/ (u.lat # None /\ u.lng # None)
    THEN [lat |-> u.lat, lng |-> u.lng, used |-> FALSE, hit |-> FALSE]
    ELSE [lat |-> c.lat, lng |-> c.lng, used |-> TRUE, hit |-> c.hit]

\* the three coordinate strategies in the order of the code: what they
\* resolve, whether float() raised, their log lines and which were invoked
Coordinates(a, u, k) ==
    [lat |-> k.lat, lng |-> k.lng, raised |-> u.raised,
     logs |-> (IF a.hit THEN <<"coords_attrs">> ELSE <<>>)
              \o (IF u.hit THEN <<"coords_url">> ELSE <<>>)
              \o (IF k.used /\ k.hit THEN <<"coords_centre">> ELSE <<>>),
     calls |-> <<"attrs">>
               \o (IF u.used THEN <<"url">> ELSE <<>>)
               \o (IF k.used THEN <<"centre">> ELSE <<>>)]

CoordsAfterUrl(a, u, c) == Coordinates(a, u, CentreCoords(u, c))

CoordsAfterAttrs(a, m, c) == CoordsAfterUrl(a, UrlCoords(a, m), c)

Locate(page) ==
    CoordsAfterAttrs(AttrLoop(page.attrs, 1, None, None), AtPattern(page.url),
                     CentreQuery(page.centre))

\* scraper.py 226-235: the record and the log lines of the panel
PanelResult(name, phone, address, hours, co, dist) ==
    [raised |-> co.raised,
     rec    |-> MkRecord(name.value, phone.value, address.value, hours.value,
                         co.lat, co.lng, dist[1], dist[2]),
     logs   |-> name.logs \o phone.logs \o address.logs \o hours.logs
                \o co.logs,
     calls  |-> co.calls]

Located(name, phone, address, hours, co, origin_lat, origin_lng) ==
    PanelResult(name, phone, address, hours, co,
                Distance(co.lat, co.lng, origin_lat, origin_lng))

\* parse_detail_panel: [raised, rec, logs, calls]; calls lists the
\* coordinate strategies that were invoked
parse_detail_panel(page, origin_lat, origin_lng) ==
    Located(NameField(page),
            TextField(page, page.phone, extract_phone(FullText(page)),
                      "phone_regex"),
            TextField(page, page.address, extract_address(FullText(page)),
                      "address_regex"),
            TextField(page, page.hours, extract_hours(FullText(page)),
                      "hours_regex"),
            Locate(page), origin_lat, origin_lng)

\* extract_origin_coords: (lat, lng), both set or both None
extract_origin_coords(url, centre) ==
    LET m  == AtPattern(url)
        g1 == IF m # None THEN FloatOf(m[1][1]) ELSE None
        g2 == IF m # None THEN FloatOf(m[1][2]) ELSE None
        c  == CentreQuery(centre)
    IN  IF g1 # None /\ g2 # None THEN <<g1, g2>>
        ELSE IF c.hit THEN <<c.lat, c.lng>>
        ELSE <<None, None>>

(***************************************************************************)
(* Panel harness: parse_detail_panel applied to every page of a product of *)
(* small answer sets.                                                      *)
(***************************************************************************)
Chain(n, i, e) == [k \in 1..n |-> IF k = i THEN e ELSE Miss]

BodyFull ==
    <<"B", "SP", "NL", "X", "shi", "1", "NL",
      "0", "3", "-", "1", "1", "-", "1", "1", "1", "NL", "9", "ji">>

Bodies ==
    { [kind |-> "raise", text |-> <<>>],
      [kind |-> "text", text |-> BodyFull],
      [kind |-> "text", text |-> <<"NL", "C">>] }

NameChains ==
    { Chain(6, 0, Miss),
      <<Raises, Elem(<<"SP">>), Elem(<<"A", "SP">>), Elem(<<"B">>), Miss, Miss>> }

AddressChains == { Chain(5, 0, Miss), Chain(5, 3, Elem(<<"Y", "ku", "2">>)) }

PhoneChains == { Chain(4, 0, Miss), Chain(4, 1, Elem(<<"0", "9", "0">>)) }

HoursChains == { Chain(5, 0, Miss), Chain(5, 5, Elem(<<"8", "ji">>)) }

AttrAnswers ==
    { <<AttrMiss, AttrMiss, AttrMiss>>,
      <<AttrRaises, AttrElem(Some(<<"1", ".", "2">>), Some(<<"3">>)), AttrMiss>>,
      <<AttrElem(Some(<<"7">>), Some(<<"x">>)), AttrMiss, AttrMiss>>,
      <<AttrElem(Some(<<"7">>), None), AttrMiss, AttrMiss>> }

UrlPlain == <<"h", "/">>
UrlAt == <<"h", "/", "@", "1", ".", "5", ",", "2", ",", "1", "3", "z">>
UrlBad == <<"h", "/", "@", "1", ".", "2", ".", "3", ",", "4">>
UrlLl == <<"h", "?", "l", "l", "=", "1", ".", "5", ",", "2">>

Urls == { UrlPlain, UrlAt, UrlBad, UrlLl }

Centres ==
    { <<EvalNull, EvalNull>>, <<EvalNum(40), EvalNum(50)>>,
      <<EvalNum(40), EvalNull>>, <<EvalRaises, EvalNum(50)>>,
      <<EvalNum(40), EvalRaises>> }

MkPage(b, n, p, a, h, at, u, c) ==
    [body |-> b, name |-> n, phone |-> p, address |-> a, hours |-> h,
     attrs |-> at, url |-> u, centre |-> c]

PanelPages ==
    { MkPage(b, n, p, a, h, at, u, c) :
        b \in Bodies, n \in NameChains, p \in PhoneChains,
        a \in AddressChains, h \in HoursChains, at \in AttrAnswers,
        u \in Urls, c \in Centres }

PanelOrigins ==
    { <<None, None>>, <<Some(10), Some(20)>>, <<Some(10), None>>,
      <<None, Some(20)>> }

PanelInit ==
    /\ RunIdle
    /\ DedupIdle
    /\ ZoomIdle
    /\ TextIdle
    /\ MarkerIdle
    /\ LoopIdle
    /\ ExtractIdle
    /\ ppc = "in"
    /\ panel_out = <<>>
    /\ panel_page \in PanelPages
    /\ panel_origin \in PanelOrigins

ApplyPanel ==
    /\ ppc = "in"
    /\ panel_out' =
          <<parse_detail_panel(panel_page, panel_origin[1], panel_origin[2])>>
    /\ ppc' = "out"
    /\ UNCHANGED <<panel_page, panel_origin, runVars, dedupVars, zoomVars, textVars, markerVars, extractVars, loopVars>>

PanelNext == ApplyPanel

PanelSpec == PanelInit /\ [][PanelNext]_vars

\* the attribute answer carries data-lat and data-lng that both read as
\* numbers
BothRead(e) ==
    /\ e.kind = "elem"
    /\ Truthy(e.lat) /\ Truthy(e.lng)
    /\ FloatOf(e.lat[1]) # None /\ FloatOf(e.lng[1]) # None

(***************************************************************************)
(* C14: when the attribute strategy yields both coordinates, the URL and   *)
(* the map-centre strategies are not invoked and the record's coordinates  *)
(* are the attribute strategy's.                                           *)
(***************************************************************************)
C14_AttributesPreempt ==
    ppc = "out" =>
        \A i \in 1..Len(panel_page.attrs) :
            ( /\ BothRead(panel_page.attrs[i])
              /\ \A j \in 1..(i - 1) : ~BothRead(panel_page.attrs[j]) )
            => /\ ~panel_out[1].raised
               /\ panel_out[1].calls = <<"attrs">>
               /\ panel_out[1].rec.lat = FloatOf(panel_page.attrs[i].lat[1])
               /\ panel_out[1].rec.lng = FloatOf(panel_page.attrs[i].lng[1])

\* attributes with both coordinates on a page whose URL and map centre
\* would answer too
C14_Witness ==
    /\ ppc = "out"
    /\ \E i \in 1..Len(panel_page.attrs) : BothRead(panel_page.attrs[i])
    /\ panel_page.url = UrlAt
    /\ panel_page.centre = <<EvalNum(40), EvalNum(50)>>
    /\ panel_out[1].rec.lat = Some(12)

(***************************************************************************)
(* C15: when the attribute strategy yields nothing, a record captured on   *)
(* a page whose URL carries only an "ll=lat,lng" pair gets that pair from  *)
(* the URL strategy, and the map-centre strategy is not invoked.           *)
(***************************************************************************)
C15_UrlPairAccepted ==
    ( /\ ppc = "out"
      /\ panel_page.url = UrlLl
      /\ \A i \in 1..Len(panel_page.attrs) : ~BothRead(panel_page.attrs[i]) )
    => /\ ~panel_out[1].raised
       /\ panel_out[1].rec.lat = Some(15)
       /\ panel_out[1].rec.lng = Some(20)
       /\ panel_out[1].calls = <<"attrs", "url">>

(***************************************************************************)
(* Text harness: safe_get_text applied to every selector chain of up to    *)
(* MaxChain answers.                                                       *)
(***************************************************************************)
MaxChain == 3

ChainAnswers ==
    { Miss, Raises, Elem(<<>>), Elem(<<"SP", "NL">>),
      Elem(<<"SP", "A", "SP", "B", "NL">>), Elem(<<"C">>) }

TextChains == UNION { [1..n -> ChainAnswers] : n \in 0..MaxChain }

TextInit ==
    /\ RunIdle
    /\ DedupIdle
    /\ PanelIdle
    /\ ZoomIdle
    /\ MarkerIdle
    /\ LoopIdle
    /\ ExtractIdle
    /\ tpc = "in"
    /\ text_out = <<>>
    /\ text_chain \in TextChains

ApplyText ==
    /\ tpc = "in"
    /\ text_out' = [value |-> safe_get_text(text_chain),
                    queried |-> selector_queries(text_chain, 1)]
    /\ tpc' = "out"
    /\ UNCHANGED <<text_chain, runVars, dedupVars, panelVars, zoomVars,
                   markerVars, extractVars, loopVars>>

TextNext == ApplyText

TextSpec == TextInit /\ [][TextNext]_vars

\* t with leading and trailing whitespace removed is v
Trimmed(t, v) ==
    /\ v # <<>>
    /\ ~IsSpace(v[1])
    /\ ~IsSpace(v[Len(v)])
    /\ \E a \in 0..(Len(t) - Len(v)) :
          /\ SubSeq(t, a + 1, a + Len(v)) = v
          /\ \A k \in 1..Len(t) :
                (k <= a \/ k > a + Len(v)) => IsSpace(t[k])

\* entry i of the chain fails: the query raised, found no element, or the
\* element's text is empty or all whitespace
Fails(e) == e.kind # "elem" \/ \A k \in 1..Len(e.text) : IsSpace(e.text[k])

(***************************************************************************)
(* C13: safe_get_text returns the trimmed text of the first chain entry    *)
(* whose trimmed text is non-empty; every earlier entry failed and was     *)
(* skipped, no entry after it is queried; when every entry fails the       *)
(* result is None and every entry was queried.                             *)
(***************************************************************************)
C13_FirstNonEmptyTextWins ==
    tpc = "out" =>
        LET n == Len(text_out.queried)
        IN  /\ text_out.queried = [k \in 1..n |-> k]
            /\ n <= Len(text_chain)
            /\ \A j \in 1..(n - 1) : Fails(text_chain[j])
            /\ IF text_out.value # None
               THEN /\ n >= 1
                    /\ ~Fails(text_chain[n])
                    /\ Trimmed(text_chain[n].text, text_out.value[1])
               ELSE /\ n = Len(text_chain)
                    /\ \A j \in 1..n : Fails(text_chain[j])

\* a raising query, an all-whitespace element, then the text that wins,
\* with an entry after it that is not queried
C13_Witness ==
    /\ tpc = "out"
    /\ text_chain = <<Raises, Elem(<<"SP", "NL">>), Elem(<<"C">>)>>
           \/ text_chain =
                 <<Elem(<<"SP", "NL">>), Elem(<<"SP", "A", "SP", "B", "NL">>),
                   Elem(<<"C">>)>>
    /\ text_out.value # None
    /\ Len(text_out.queried) < Len(text_chain)

(***************************************************************************)
(* C7: in every record parse_detail_panel produces, the two distance       *)
(* fields are present only if the origin and the record's latitude and     *)
(* longitude are all resolved; otherwise both are absent, never zero.      *)
(***************************************************************************)
Produced == ppc = "out" /\ ~panel_out[1].raised

C7_DistanceOnlyWhenResolved ==
    Produced =>
        LET r == panel_out[1].rec
            resolved == /\ panel_origin[1] # None /\ panel_origin[2] # None
                        /\ r.lat # None /\ r.lng # None
        IN  /\ (r.dist_m # None \/ r.dist_km # None) => resolved
            /\ ~resolved => r.dist_m = None /\ r.dist_km = None

\* a record with resolved coordinates and no origin, and its distances absent
C7_Witness ==
    /\ Produced
    /\ panel_origin[1] = None
    /\ panel_out[1].rec.lat # None /\ panel_out[1].rec.lng # None
    /\ panel_out[1].rec.dist_m = None

(***************************************************************************)
(* Zoom harness: the zoom block of scraper.py 359-374 run twice, with two  *)
(* zoom arguments, against the same map.  The map holds a zoom level that  *)
(* a click on a zoom control moves by one; level is what getZoom answers   *)
(* first (a number, null, or the evaluate raises), buttons tells whether   *)
(* the zoom controls can be clicked.                                       *)
(***************************************************************************)
MaxZoom == 2       \* largest zoom argument and map level of the zoom harness

\* the turns of the two while loops from level cur on: the page operations
\* issued until the level equals zoom or a click raises
RECURSIVE ZoomTurns(_, _, _)
ZoomTurns(cur, zoom_arg, buttons) ==
    IF cur < zoom_arg
    THEN IF buttons = "raise" THEN <<"click Zoom in">>
         ELSE <<"click Zoom in", "getZoom", "wait">>
              \o ZoomTurns(cur + 1, zoom_arg, buttons)
    ELSE IF cur > zoom_arg
         THEN IF buttons = "raise" THEN <<"click Zoom out">>
              ELSE <<"click Zoom out", "getZoom", "wait">>
                   \o ZoomTurns(cur - 1, zoom_arg, buttons)
         ELSE <<>>

\* a plausible slip: "<=" for "<" in the first loop, one turn too many
adjust_zoom_one_more(zoom_arg, page) ==
    <<"getZoom">>
    \o (IF page.level.kind = "num"
        THEN ZoomTurns(page.level.v, zoom_arg + 1, page.buttons)
        ELSE <<>>)

\* the page operations the zoom block issues for a zoom argument
adjust_zoom(zoom_arg, page) ==
    <<"getZoom">>
    \o (IF page.level.kind = "num"
        THEN ZoomTurns(page.level.v, zoom_arg, page.buttons)
        ELSE <<>>)

ZoomPages ==
    [level : {EvalNull, EvalRaises} \cup {EvalNum(n) : n \in 0..MaxZoom},
     buttons : {"work", "raise"}]

ZoomInit ==
    /\ RunIdle
    /\ DedupIdle
    /\ PanelIdle
    /\ TextIdle
    /\ MarkerIdle
    /\ LoopIdle
    /\ ExtractIdle
    /\ zpc = "in"
    /\ zoom_ops = <<>>
    /\ zoom_pair \in (0..MaxZoom) \X (0..MaxZoom)
    /\ zoom_page \in ZoomPages

ApplyZoom ==
    /\ zpc = "in"
    /\ zoom_ops' = <<adjust_zoom(zoom_pair[1], zoom_page),
                     adjust_zoom(zoom_pair[2], zoom_page)>>
    /\ zpc' = "out"
    /\ UNCHANGED <<zoom_pair, zoom_page, runVars, dedupVars, panelVars,
                   textVars, markerVars, extractVars, loopVars>>

ZoomNext == ApplyZoom

ZoomSpec == ZoomInit /\ [][ZoomNext]_vars

(***************************************************************************)
(* Zoom-loop harness: the zoom block of scraper.py 360-374 statement by    *)
(* statement, on a map that follows a zoom click by one level, stays at    *)
(* its level whatever is clicked (a level outside the map's range is       *)
(* asked for, or the button is disabled), or whose controls raise.  Every  *)
(* page operation returns or raises; the program then runs its next        *)
(* statement, which is the weak fairness of LoopNext.                      *)
(***************************************************************************)
MapBehaviours == {"follows", "stuck", "breaks"}

LoopInit ==
    /\ RunIdle
    /\ DedupIdle
    /\ PanelIdle
    /\ ZoomIdle
    /\ TextIdle
    /\ MarkerIdle
    /\ ExtractIdle
    /\ lp_pc = "read"
    /\ lp_current = None
    /\ lp_zoom \in 0..MaxZoom
    /\ lp_map \in MapBehaviours

LoopRest == UNCHANGED <<lp_zoom, lp_map, runVars, dedupVars, panelVars,
                        zoomVars, textVars, markerVars, extractVars>>

\* 361-362: current_zoom = page.evaluate(...); null skips both loops, an
\* exception goes to the except clause of 372
LoopRead ==
    /\ lp_pc = "read"
    /\ \/ lp_pc' = "done" /\ UNCHANGED lp_current
       \/ \E z \in 0..MaxZoom : lp_current' = Some(z) /\ lp_pc' = "in_test"
    /\ LoopRest

\* 363: while int(current_zoom) < zoom
LoopInTest ==
    /\ lp_pc = "in_test"
    /\ lp_pc' = IF lp_current[1] < lp_zoom THEN "in_click" ELSE "out_test"
    /\ UNCHANGED lp_current
    /\ LoopRest

\* 364: page.click("button[aria-label='Zoom in']", timeout=2000)
LoopInClick ==
    /\ lp_pc = "in_click"
    /\ lp_pc' = IF lp_map = "breaks" THEN "done" ELSE "in_read"
    /\ UNCHANGED lp_current
    /\ LoopRest

\* 365: current_zoom = page.evaluate("map.getZoom()")
LoopInRead ==
    /\ lp_pc = "in_read"
    /\ lp_current' = IF lp_map = "follows" THEN Some(lp_current[1] + 1)
                     ELSE lp_current
    /\ lp_pc' = "in_wait"
    /\ LoopRest

\* 366: page.wait_for_timeout(500)
LoopInWait ==
    /\ lp_pc = "in_wait"
    /\ lp_pc' = "in_test"
    /\ UNCHANGED lp_current
    /\ LoopRest

\* 367: while int(current_zoom) > zoom; 371-374 after the loop
LoopOutTest ==
    /\ lp_pc = "out_test"
    /\ lp_pc' = IF lp_current[1] > lp_zoom THEN "out_click" ELSE "done"
    /\ UNCHANGED lp_current
    /\ LoopRest

\* 368: page.click("button[aria-label='Zoom out']", timeout=2000)
LoopOutClick ==
    /\ lp_pc = "out_click"
    /\ lp_pc' = IF lp_map = "breaks" THEN "done" ELSE "out_read"
    /\ UNCHANGED lp_current
    /\ LoopRest

\* 369: current_zoom = page.evaluate("map.getZoom()")
LoopOutRead ==
    /\ lp_pc = "out_read"
    /\ lp_current' = IF lp_map = "follows" THEN Some(lp_current[1] - 1)
                     ELSE lp_current
    /\ lp_pc' = "out_wait"
    /\ LoopRest

\* 370: page.wait_for_timeout(500)
LoopOutWait ==
    /\ lp_pc = "out_wait"
    /\ lp_pc' = "out_test"
    /\ UNCHANGED lp_current
    /\ LoopRest

LoopNext ==
    \/ LoopRead \/ LoopInTest \/ LoopInClick \/ LoopInRead \/ LoopInWait
    \/ LoopOutTest \/ LoopOutClick \/ LoopOutRead \/ LoopOutWait

LoopSpec == LoopInit /\ [][LoopNext]_vars /\ WF_vars(LoopNext)

Clicks(ops) == {k \in 1..Len(ops) : ops[k] \in {"click Zoom in", "click Zoom out"}}

SpecialCategory == "hospital"

CategoryLists ==
    { <<"conbini">>, <<SpecialCategory>>, <<"conbini", SpecialCategory>> }

\* the parameter names of the signature that matter to the callers' keyword
Parameters == {"address", "zoom", "categories", "headless", "max_items", "logger"}

ZoomArgs == {1}
ZoomLevels == 0..2

\* MARKER_SELECTORS of selectors.py
MARKER_SELECTORS == <<"div.leaflet-marker-icon", "img.leaflet-marker-icon",
                      "div.gmnoprint img", "div.gmnoprint">>

NSel == Len(MARKER_SELECTORS)

\* What query_selector_all answers for each marker selector: -1 when the
\* query raises, else the number of elements.  The two Leaflet selectors
\* answer anything, the two Google ones match nothing.
MarkerAnswers ==
    { q \in [1..NSel -> -1..MaxMarkers] : \A k \in 3..NSel : q[k] = 0 }

\* whether element.click() succeeds on a marker of each selector: a click
\* on a marker of the first selector may raise
ClickAnswers ==
    { c \in [1..NSel -> BOOLEAN] : \A k \in 2..NSel : c[k] }

\* scraper.py 429-437: the first selector whose collection is not empty
\* gives marker_count; a query that raises is skipped
EnumerateMarkers(q) ==
    LET hits == {k \in 1..NSel : q[k] > 0}
    IN  IF hits = {} THEN 0 ELSE q[Min(hits)]

\* scraper.py 444-449: the same loop without the try; "raise" when a query
\* raises before a non-empty collection is found
RetryMarkers(q) ==
    LET stops == {k \in 1..NSel : q[k] # 0}
    IN  IF stops = {} THEN [raised |-> FALSE, count |-> 0]
        ELSE IF q[Min(stops)] < 0 THEN [raised |-> TRUE, count |-> 0]
        ELSE [raised |-> FALSE, count |-> q[Min(stops)]]

\* locate_and_click_marker: the selectors in order; one whose collection
\* holds index i is clicked; a click that raises moves on to the next
\* selector.  [ok, clicked]: clicked lists the selectors on whose element
\* click() was called, one "Click marker" log line each.
RECURSIVE ClickFrom(_, _, _, _, _)
ClickFrom(q, c, i, k, clicked) ==
    IF k > NSel THEN [ok |-> FALSE, clicked |-> clicked]
    ELSE IF q[k] > i
         THEN IF c[k] THEN [ok |-> TRUE, clicked |-> Append(clicked, k)]
              ELSE ClickFrom(q, c, i, k + 1, Append(clicked, k))
         ELSE ClickFrom(q, c, i, k + 1, clicked)

locate_and_click_marker(q, c, i) == ClickFrom(q, c, i, 1, <<>>)

\* the selector whose collection gave marker_count in the first pass, 0
\* when none did
WinningSelector(q) ==
    LET hits == {k \in 1..NSel : q[k] > 0}
    IN  IF hits = {} THEN 0 ELSE Min(hits)

\* the queries of the first pass (429-437) and of the pass after the scroll
\* (444-449), each with the selector and its answer
EnumerateQueries(q) ==
    [k \in 1..(IF WinningSelector(q) = 0 THEN NSel ELSE WinningSelector(q))
        |-> <<"enumerate", k, q[k]>>]

RetrySelector(q) ==
    LET stops == {k \in 1..NSel : q[k] # 0}
    IN  IF stops = {} THEN 0 ELSE Min(stops)

RetryQueries(q) ==
    [k \in 1..(IF RetrySelector(q) = 0 THEN NSel ELSE RetrySelector(q))
        |-> <<"retry", k, q[k]>>]

\* a plausible slip: the scroll is repeated for as long as no marker shows
AfterRetryScrollAgain(count) == IF count = 0 THEN "scroll" ELSE "markers"

\* scraper.py 441: the scroll is tried when the first pass found no marker
AfterEnumerate(count) == IF count = 0 THEN "scroll" ELSE "markers"

\* scraper.py 449-452: whatever the second pass found, the marker loop is
\* next
AfterRetry(count) == "markers"

Repeat(tag, n) == [k \in 1..n |-> tag]

\* a plausible slip: the cap is never enforced
CapNeverReached(n, cap) == FALSE

\* "max_items and len(data_records) >= max_items"
CapReached(n, cap) == cap # 0 /\ n >= cap

\* a plausible slip: the session is left open when the with block is left
LeaveWithLeak(s) == s

\* leaving "with sync_playwright() as p": the context manager stops the
\* session on every way out of the block
LeaveWith(s) == IF s = "open" THEN "closed" ELSE s

\* a plausible slip: the handler re-raises
ExceptReraises == "raised"

\* "except Exception as exc: ... return ScrapeResult(pd.DataFrame(), logs)"
ExceptOutcome == "returned"

(***************************************************************************)
(* Column labels of the returned table.  The labels are the field names of *)
(* the records; a dict keeps its keys in insertion order and               *)
(* pd.DataFrame(list of dicts) takes its columns in that order.            *)
(***************************************************************************)
\* the keys of the dict parse_detail_panel builds, in insertion order
\* (scraper.py 151, 160, 169, 178, 223, 224, 229-233)
PanelKeys ==
    <<"name", "phone", "address", "hours", "lat", "lng", "dist_m", "dist_km">>

\* scraper.py 465-466 add the category and the capture time
RecordKeys == PanelKeys \o <<"category", "capturedAt">>

\* scraper.py 488: the columns given to the table of a run without records
EmptyTableColumns ==
    <<"name", "phone", "address", "hours", "lat", "lng", "dist_m", "dist_km",
      "category", "capturedAt">>

\* pd.DataFrame() of scraper.py 354 and 482: a table without columns
NoColumns == <<>>

\* scraper.py 485-495: the columns of the table built from the records; the
\* two key columns the dedup adds are dropped again
Columns(recs) == IF recs # <<>> THEN RecordKeys ELSE EmptyTableColumns

\* a page operation is being issued: remember if the session is not open
Op == opAfterClose' = (opAfterClose \/ session # "open")

\* the except clause of scraper.py 479-482, entered with the log lines that
\* were appended before the exception
Abort(lines) ==
    /\ session' = LeaveWith(session)
    /\ logs' = logs \o lines \o <<"Scraping failed">>
    /\ dataframe' = <<>>
    /\ columns' = NoColumns
    /\ outcome' = ExceptOutcome
    /\ pc' = "done"

\* The inputs of a run.  The start-up of the site (consent dialog, zoom
\* controls, where the origin is found) is explored in full for the runs
\* over one category ("flaky"); the runs over more categories start on a
\* site without consent dialog, whose zoom controls work and whose URL
\* carries the origin ("steady").  Every step may fail on either site.
RunInputs ==
    /\ zoom \in ZoomArgs
    /\ categories \in CategoryLists
    /\ max_items \in 0..MaxCap
    /\ site \in {"steady", "flaky"}
    /\ site = "flaky" => Len(categories) = 1

\* the locals of scrape_locations before its first statement
RunStart ==
    /\ DedupIdle
    /\ PanelIdle
    /\ ZoomIdle
    /\ TextIdle
    /\ MarkerIdle
    /\ LoopIdle
    /\ ExtractIdle
    /\ pc = "call"
    /\ session = "none" /\ logs = <<>>
    /\ origin = <<None, None>> /\ current_zoom = None /\ ci = 0
    /\ marker_count = 0 /\ idx = 0 /\ data_records = <<>> /\ visits = <<>>
    /\ entered = <<>> /\ applied = <<>> /\ outcome = "none"
    /\ dataframe = <<>> /\ columns = <<>> /\ opAfterClose = FALSE

\* a call that passes the cap by the name of the signature
Init ==
    /\ kw = "max_items"
    /\ RunInputs
    /\ RunStart

\* the calls of the smoke tests: one category, a cap of 1, passed as
\* max_count=1; beside them the same calls with the cap passed as max_items
SmokeInit ==
    /\ kw \in {"max_count", "max_items"}
    /\ RunInputs
    /\ categories = <<"conbini">>
    /\ max_items = 1
    /\ RunStart

\* the call binds its keywords to the parameters (TypeError for a keyword
\* that is no parameter), then scraper.py 320-326
Call ==
    /\ pc = "call"
    /\ IF kw \in Parameters
       THEN /\ logs' = <<"Playwright session starting">>
            /\ pc' = "launch"
            /\ UNCHANGED outcome
       ELSE /\ outcome' = "raised"
            /\ pc' = "done"
            /\ UNCHANGED logs
    /\ UNCHANGED <<dedupVars, panelVars, zoomVars, textVars, markerVars, extractVars, loopVars>>
    /\ UNCHANGED <<kw, site, zoom, categories, max_items, session, origin,
                   current_zoom, ci, marker_count, idx, data_records, visits,
                   entered, applied, dataframe, columns, opAfterClose>>

\* scraper.py 328-331: enter the context manager, launch, new page
Launch ==
    /\ pc = "launch"
    /\ \E r \in {"ok", "start_fails", "launch_fails"} :
         CASE r = "ok" ->
                /\ session' = "open"
                /\ pc' = "goto"
                /\ UNCHANGED <<logs, dataframe, columns, outcome>>
           [] r = "start_fails" ->
                Abort(<<>>)
           [] r = "launch_fails" ->
                /\ session' = LeaveWith("open")
                /\ logs' = logs \o <<"Scraping failed">>
                /\ dataframe' = <<>>
                /\ columns' = NoColumns
                /\ outcome' = ExceptOutcome
                /\ pc' = "done"
    /\ UNCHANGED <<dedupVars, panelVars, zoomVars, textVars, markerVars, extractVars, loopVars>>
    /\ UNCHANGED <<kw, site, zoom, categories, max_items, origin, current_zoom, ci,
                   marker_count, idx, data_records, visits, entered, applied,
                   opAfterClose>>

\* scraper.py 333-342: navigate, then the optional consent click
Goto ==
    /\ pc = "goto"
    /\ Op
    /\ \E r \in {"ok", "goto_fails"}
                 \cup (IF site = "flaky" THEN {"consent"} ELSE {}) :
         CASE r = "ok" ->
                /\ logs' = logs \o <<"Navigate">>
                /\ pc' = "search"
                /\ UNCHANGED <<session, dataframe, columns, outcome>>
           [] r = "consent" ->
                /\ logs' = logs \o <<"Navigate", "Clicked consent button">>
                /\ pc' = "search"
                /\ UNCHANGED <<session, dataframe, columns, outcome>>
           [] r = "goto_fails" ->
                Abort(<<"Navigate">>)
    /\ UNCHANGED <<dedupVars, panelVars, zoomVars, textVars, markerVars, extractVars, loopVars>>
    /\ UNCHANGED <<kw, site, zoom, categories, max_items, origin, current_zoom, ci,
                   marker_count, idx, data_records, visits, entered, applied>>

\* a plausible slip: the run goes on without a search box
GoOnAfterSearchBoxTimeout == "zoom"

\* scraper.py 351-354: where the run goes when the search box timed out
AfterSearchBoxTimeout == "done"

\* scraper.py 345-357: type the address into the search box, wait for the map
SearchAddress ==
    /\ pc = "search"
    /\ Op
    /\ \E r \in {"ok", "timeout", "error", "wait_fails"} :
         CASE r = "ok" ->
                /\ logs' = logs \o <<"Search for address">>
                /\ pc' = "zoom"
                /\ UNCHANGED <<session, dataframe, columns, outcome>>
           [] r = "timeout" ->
                /\ logs' = logs \o <<"Search box not found">>
                /\ pc' = AfterSearchBoxTimeout
                /\ IF AfterSearchBoxTimeout = "done"
                   THEN /\ session' = LeaveWith(session)
                        /\ dataframe' = <<>>
                        /\ columns' = NoColumns
                        /\ outcome' = "returned"
                   ELSE UNCHANGED <<session, dataframe, columns, outcome>>
           [] r = "error" ->
                Abort(<<>>)
           [] r = "wait_fails" ->
                Abort(<<"Search for address">>)
    /\ UNCHANGED <<dedupVars, panelVars, zoomVars, textVars, markerVars, extractVars, loopVars>>
    /\ UNCHANGED <<kw, site, zoom, categories, max_items, origin, current_zoom, ci,
                   marker_count, idx, data_records, visits, entered, applied>>

\* leaving the zoom block, scraper.py 371-374: one log line either way; the
\* local current_zoom is not read again
ZoomDone(line) ==
    /\ logs' = logs \o <<line>>
    /\ current_zoom' = None
    /\ pc' = "origin"
    /\ UNCHANGED <<session, dataframe, columns, outcome>>

\* scraper.py 361-362: read the map's zoom
GetZoom ==
    /\ pc = "zoom"
    /\ Op
    /\ \/ /\ site = "flaky"                           \* evaluate raises
          /\ ZoomDone("Zoom adjustment skipped")
       \/ ZoomDone("Adjusted zoom")                    \* evaluate gives null
       \/ \E z \in ZoomLevels :
            /\ current_zoom' = Some(z)
            /\ pc' = "zoom_in"
            /\ UNCHANGED <<logs, session, dataframe, columns, outcome>>
    /\ UNCHANGED <<dedupVars, panelVars, zoomVars, textVars, markerVars, extractVars, loopVars>>
    /\ UNCHANGED <<kw, site, zoom, categories, max_items, origin, ci, marker_count,
                   idx, data_records, visits, entered, applied>>

\* scraper.py 363-366: one turn of "while int(current_zoom) < zoom"
ZoomIn ==
    /\ pc = "zoom_in"
    /\ IF current_zoom[1] < zoom
       THEN /\ Op
            /\ \/ /\ site = "flaky"          \* click, evaluate or wait raises
                  /\ ZoomDone("Zoom adjustment skipped")
               \/ \E z \in ZoomLevels :
                    /\ current_zoom' = Some(z)
                    /\ UNCHANGED <<pc, logs, session, dataframe, columns, outcome>>
       ELSE /\ pc' = "zoom_out"
            /\ UNCHANGED <<current_zoom, logs, session, dataframe, columns, outcome,
                           opAfterClose>>
    /\ UNCHANGED <<dedupVars, panelVars, zoomVars, textVars, markerVars, extractVars, loopVars>>
    /\ UNCHANGED <<kw, site, zoom, categories, max_items, origin, ci, marker_count,
                   idx, data_records, visits, entered, applied>>

\* scraper.py 367-371: one turn of "while int(current_zoom) > zoom"
ZoomOut ==
    /\ pc = "zoom_out"
    /\ IF current_zoom[1] > zoom
       THEN /\ Op
            /\ \/ /\ site = "flaky"
                  /\ ZoomDone("Zoom adjustment skipped")
               \/ \E z \in ZoomLevels :
                    /\ current_zoom' = Some(z)
                    /\ UNCHANGED <<pc, logs, session, dataframe, columns, outcome>>
       ELSE /\ ZoomDone("Adjusted zoom")
            /\ UNCHANGED opAfterClose
    /\ UNCHANGED <<dedupVars, panelVars, zoomVars, textVars, markerVars, extractVars, loopVars>>
    /\ UNCHANGED <<kw, site, zoom, categories, max_items, origin, ci, marker_count,
                   idx, data_records, visits, entered, applied>>

OriginUrls == { UrlPlain, UrlAt, UrlBad }
OriginCentres == { <<EvalNull, EvalNull>>, <<EvalNum(40), EvalNull>>,
                   <<EvalRaises, EvalNum(50)>> }

\* where the run goes after the origin: the first category, or the end of
\* the with block when there is none
FirstCategory ==
    IF categories = <<>> THEN pc' = "exit_with" /\ ci' = 0
    ELSE pc' = "filter" /\ ci' = 1

\* scraper.py 377: the origin of the distances
ExtractOrigin ==
    /\ pc = "origin"
    /\ Op
    /\ \E u \in (IF site = "flaky" THEN OriginUrls ELSE {UrlAt}),
          c \in OriginCentres :
         origin' = extract_origin_coords(u, c)
    /\ FirstCategory
    /\ UNCHANGED <<dedupVars, panelVars, zoomVars, textVars, markerVars, extractVars, loopVars>>
    /\ UNCHANGED <<kw, site, zoom, categories, max_items, session, logs,
                   current_zoom, marker_count, idx, data_records, visits,
                   entered, applied, outcome, dataframe, columns>>

\* What the page answers to the filter step.  Per panel selector: "miss"
\* (no element, or the query or the click raised), "hit" (clicked, the
\* settle wait returned), "hit_wait_fails" (clicked, the settle wait
\* raised: clicked stays True and the loop continues).  For the search box:
\* "none" (no element), "ok", "raise" (before the log line), "raise_late"
\* (the settle wait raised after the log line).  The runs explore a panel
\* without the button and one whose second selector finds it, and the
\* search-box answers "none", "ok" and "raise".
PanelAnswers == { <<"miss", "miss", "miss">>, <<"miss", "hit", "miss">> }

SearchAnswers == {"none", "ok", "raise"}

\* scraper.py 401-411: the loop over the three panel selectors
RECURSIVE PanelLoop(_, _, _)
PanelLoop(p, k, clicks) ==
    IF k > Len(p) THEN clicks
    ELSE IF p[k] = "hit" THEN clicks + 1
    ELSE IF p[k] = "hit_wait_fails" THEN PanelLoop(p, k + 1, clicks + 1)
    ELSE PanelLoop(p, k + 1, clicks)

\* the search-box path, scraper.py 387-397 and 414-423
SearchPath(s, okLine, failLine) ==
    CASE s = "none" -> <<>>
      [] s = "ok" -> <<okLine>>
      [] s = "raise" -> <<failLine>>
      [] s = "raise_late" -> <<okLine, failLine>>

\* a plausible slip: the special case left out, every category goes to the
\* panel first
apply_filter_panel_first(cat, p, s) ==
    LET clicks == PanelLoop(p, 1, 0)
    IN  IF clicks > 0
        THEN [logs |-> Repeat("Clicked category button", clicks),
              panelQueried |-> TRUE, clicks |-> clicks, how |-> "panel"]
        ELSE [logs |-> SearchPath(s, "Searched for category via search",
                                  "Failed to search for category"),
              panelQueried |-> TRUE, clicks |-> 0,
              how |-> IF s \in {"ok", "raise_late"} THEN "search"
                      ELSE "failed"]

\* how the filter step of category cat ends: the log lines, and for the
\* history how the filter was applied
apply_filter(cat, p, s) ==
    IF cat = SpecialCategory
    THEN [logs |-> SearchPath(s, "Searched for special category",
                              "Search failed"),
          panelQueried |-> FALSE, clicks |-> 0,
          how |-> IF s \in {"ok", "raise_late"} THEN "search" ELSE "failed"]
    ELSE LET clicks == PanelLoop(p, 1, 0)
         IN  IF clicks > 0
             THEN [logs |-> Repeat("Clicked category button", clicks),
                   panelQueried |-> TRUE, clicks |-> clicks, how |-> "panel"]
             ELSE [logs |-> SearchPath(s, "Searched for category via search",
                                       "Failed to search for category"),
                   panelQueried |-> TRUE, clicks |-> 0,
                   how |-> IF s \in {"ok", "raise_late"} THEN "search"
                           ELSE "failed"]

\* scraper.py 380-426: enter the category, apply its filter, wait
ApplyFilter ==
    /\ pc = "filter"
    /\ Op
    /\ entered' = Append(entered, Len(data_records))
    /\ \E p \in PanelAnswers, s \in SearchAnswers, wait \in {"ok", "raise"} :
         LET f == apply_filter(categories[ci], p, s)
             lines == <<"Processing category">> \o f.logs
         IN  /\ applied' = Append(applied, [panelQueried |-> f.panelQueried,
                                            clicks |-> f.clicks, how |-> f.how])
             /\ IF wait = "ok"
                THEN /\ logs' = logs \o lines
                     /\ pc' = "enumerate"
                     /\ UNCHANGED <<session, dataframe, columns, outcome>>
                ELSE Abort(lines)
    /\ UNCHANGED <<dedupVars, panelVars, zoomVars, textVars, markerVars, extractVars, loopVars>>
    /\ UNCHANGED <<kw, site, zoom, categories, max_items, origin, current_zoom, ci,
                   marker_count, idx, data_records, visits>>

\* scraper.py 428-439: count the markers
Enumerate ==
    /\ pc = "enumerate"
    /\ Op
    /\ \E q \in MarkerAnswers :
         /\ marker_count' = EnumerateMarkers(q)
         /\ pc' = AfterEnumerate(EnumerateMarkers(q))
    /\ logs' = logs \o <<"Found markers">>
    /\ idx' = 0
    /\ UNCHANGED <<dedupVars, panelVars, zoomVars, textVars, markerVars, extractVars, loopVars>>
    /\ UNCHANGED <<kw, site, zoom, categories, max_items, session, origin,
                   current_zoom, ci, data_records, visits, entered, applied,
                   outcome, dataframe, columns>>

\* scraper.py 441-449: scroll once and count again, outside any try
ScrollRetry ==
    /\ pc = "scroll"
    /\ Op
    /\ \/ /\ Abort(<<>>)                     \* the wheel or the wait raises
          /\ UNCHANGED marker_count
       \/ \E q \in MarkerAnswers :
            LET r == RetryMarkers(q)
            IN  IF r.raised
                THEN Abort(<<>>) /\ UNCHANGED marker_count
                ELSE /\ marker_count' = r.count
                     /\ logs' = logs \o (IF r.count > 0
                                         THEN <<"After scrolling">> ELSE <<>>)
                     /\ pc' = AfterRetry(r.count)
                     /\ UNCHANGED <<session, dataframe, columns, outcome>>
    /\ UNCHANGED <<dedupVars, panelVars, zoomVars, textVars, markerVars, extractVars, loopVars>>
    /\ UNCHANGED <<kw, site, zoom, categories, max_items, origin, current_zoom, ci,
                   idx, data_records, visits, entered, applied>>

\* the pages a clicked marker shows: every selector answering with coordinates
\* in the marker attributes; only body text, with coordinates in the URL;
\* nothing readable, with a URL whose "@" segment is not a number
PageFull ==
    MkPage([kind |-> "text", text |-> BodyFull],
           <<Raises, Elem(<<"SP">>), Elem(<<"A", "SP">>), Elem(<<"B">>), Miss, Miss>>,
           Chain(4, 1, Elem(<<"0", "9", "0">>)),
           Chain(5, 3, Elem(<<"Y", "ku", "2">>)),
           Chain(5, 5, Elem(<<"8", "ji">>)),
           <<AttrRaises, AttrElem(Some(<<"1", ".", "2">>), Some(<<"3">>)), AttrMiss>>,
           UrlPlain, <<EvalNull, EvalNull>>)

PageBare ==
    MkPage([kind |-> "text", text |-> BodyFull],
           Chain(6, 0, Miss), Chain(4, 0, Miss), Chain(5, 0, Miss),
           Chain(5, 0, Miss), <<AttrMiss, AttrMiss, AttrMiss>>,
           UrlAt, <<EvalNull, EvalNull>>)

PageBadUrl ==
    MkPage([kind |-> "raise", text |-> <<>>],
           Chain(6, 0, Miss), Chain(4, 0, Miss), Chain(5, 0, Miss),
           Chain(5, 0, Miss), <<AttrMiss, AttrMiss, AttrMiss>>,
           UrlBad, <<EvalNum(40), EvalNum(50)>>)

\* marker i of every category opens the panel of facility i: the even ones
\* answer like PageFull, the odd ones like PageBare; any of them may be
\* caught on the URL PageBadUrl shows
MainPages(i) == { IF i % 2 = 0 THEN PageFull ELSE PageBare, PageBadUrl }

\* a plausible slip: the record is put in front of the list
PrependRecord(recs, r) == <<r>> \o recs

\* data_records.append(record)
AppendRecord(recs, r) == Append(recs, r)

Visit(what) == visits' = Append(visits, <<ci, idx, what>>)

\* scraper.py 452-460: the loop head, the cap check and the click
ClickMarker ==
    /\ pc = "markers"
    /\ idx < marker_count
    /\ ~CapReached(Len(data_records), max_items)
    /\ Op
    /\ \E q \in MarkerAnswers, c \in ClickAnswers :
         LET r == locate_and_click_marker(q, c, idx)
         IN  IF r.ok
             THEN /\ pc' = "panel"
                  /\ UNCHANGED <<logs, idx, visits>>
             ELSE /\ logs' = logs \o <<"Failed to click marker">>
                  /\ Visit("click_failed")
                  /\ idx' = idx + 1
                  /\ UNCHANGED pc
    /\ UNCHANGED <<dedupVars, panelVars, zoomVars, textVars, markerVars, extractVars, loopVars>>
    /\ UNCHANGED <<kw, site, zoom, categories, max_items, session, origin,
                   current_zoom, ci, marker_count, data_records, entered,
                   applied, outcome, dataframe, columns>>

\* scraper.py 454-456 and 474-476: the cap is reached inside the marker
\* loop; the break leaves the loop, and the check after the loop leaves the
\* category loop
CapBreak ==
    /\ pc = "markers"
    /\ idx < marker_count
    /\ CapReached(Len(data_records), max_items)
    /\ logs' = logs \o <<"Reached maximum">>
    /\ pc' = "exit_with"
    /\ UNCHANGED <<dedupVars, panelVars, zoomVars, textVars, markerVars, extractVars, loopVars>>
    /\ UNCHANGED <<kw, site, zoom, categories, max_items, session, origin,
                   current_zoom, ci, marker_count, idx, data_records, visits,
                   entered, applied, outcome, dataframe, columns, opAfterClose>>

\* scraper.py 461-472: wait for the panel, parse it, append the record
ReadPanel ==
    /\ pc = "panel"
    /\ Op
    /\ \/ /\ Abort(<<>>)                           \* wait_for_timeout raises
          /\ UNCHANGED <<idx, data_records, visits>>
       \/ \E page \in MainPages(idx) :
            \E r \in {parse_detail_panel(page, origin[1], origin[2])} :
                /\ IF r.raised
                   THEN /\ logs' = logs \o <<"Error parsing marker">>
                        /\ Visit("parse_failed")
                        /\ UNCHANGED data_records
                   ELSE /\ data_records' =
                             AppendRecord(data_records,
                                          Tag(r.rec, categories[ci],
                                              Len(visits) + 1))
                        /\ logs' = logs \o <<"Extracted record">>
                        /\ Visit("record")
                /\ idx' = idx + 1
                /\ pc' = "markers"
                /\ UNCHANGED <<session, dataframe, columns, outcome>>
    /\ UNCHANGED <<dedupVars, panelVars, zoomVars, textVars, markerVars, extractVars, loopVars>>
    /\ UNCHANGED <<kw, site, zoom, categories, max_items, origin, current_zoom, ci,
                   marker_count, entered, applied>>

\* the marker loop is exhausted; scraper.py 474-476 and the head of the
\* category loop: stop at the cap, else go on with the next category
EndCategory ==
    /\ pc = "markers"
    /\ idx >= marker_count
    /\ IF CapReached(Len(data_records), max_items) \/ ci = Len(categories)
       THEN pc' = "exit_with" /\ UNCHANGED ci
       ELSE pc' = "filter" /\ ci' = ci + 1
    /\ UNCHANGED <<dedupVars, panelVars, zoomVars, textVars, markerVars, extractVars, loopVars>>
    /\ UNCHANGED <<kw, site, zoom, categories, max_items, session, logs, origin,
                   current_zoom, marker_count, idx, data_records, visits,
                   entered, applied, outcome, dataframe, columns, opAfterClose>>

\* scraper.py 478, 484-497: leave the with block, build and dedup the table
Finish ==
    /\ pc = "exit_with"
    /\ session' = LeaveWith(session)
    /\ dataframe' = Deduplicate(data_records)
    /\ columns' = Columns(data_records)
    /\ outcome' = "returned"
    /\ pc' = "done"
    /\ UNCHANGED <<dedupVars, panelVars, zoomVars, textVars, markerVars, extractVars, loopVars>>
    /\ UNCHANGED <<kw, site, zoom, categories, max_items, logs, origin,
                   current_zoom, ci, marker_count, idx, data_records, visits,
                   entered, applied, opAfterClose>>

Next ==
    \/ Call \/ Launch \/ Goto \/ SearchAddress
    \/ GetZoom \/ ZoomIn \/ ZoomOut \/ ExtractOrigin
    \/ ApplyFilter \/ Enumerate \/ ScrollRetry
    \/ ClickMarker \/ CapBreak \/ ReadPanel \/ EndCategory
    \/ Finish

Spec == Init /\ [][Next]_vars

SmokeSpec == SmokeInit /\ [][Next]_vars

(***************************************************************************)
(* Marker harness: the marker phase of one category (scraper.py 428-472)   *)
(* on a page whose marker collections may answer differently at every      *)
(* query, with no item cap.  mk_ops lists the page operations: the         *)
(* queries that count the markers, the scroll, and the clicks; the         *)
(* queries locate_and_click_marker issues before a click are left out.     *)
(***************************************************************************)
MarkerInit ==
    /\ RunIdle
    /\ DedupIdle
    /\ PanelIdle
    /\ ZoomIdle
    /\ TextIdle
    /\ ExtractIdle
    /\ LoopIdle
    /\ mk_pc = "enumerate"
    /\ mk_count = 0
    /\ mk_won = 0
    /\ mk_idx = 0
    /\ mk_ops = <<>>
    /\ mk_visits = <<>>

\* scraper.py 428-439
MarkerEnumerate ==
    /\ mk_pc = "enumerate"
    /\ \E q \in MarkerAnswers :
         /\ mk_count' = EnumerateMarkers(q)
         /\ mk_won' = WinningSelector(q)
         /\ mk_ops' = mk_ops \o EnumerateQueries(q)
         /\ mk_pc' = AfterEnumerate(EnumerateMarkers(q))
    /\ UNCHANGED <<mk_idx, mk_visits>>
    /\ UNCHANGED <<runVars, dedupVars, panelVars, zoomVars, textVars,
                   extractVars, loopVars>>

\* scraper.py 441-449
MarkerScrollRetry ==
    /\ mk_pc = "scroll"
    /\ \/ /\ mk_ops' = Append(mk_ops, <<"wheel">>)     \* the wheel raises
          /\ mk_pc' = "aborted"
          /\ UNCHANGED <<mk_count, mk_won>>
       \/ \E q \in MarkerAnswers :
            /\ mk_ops' = mk_ops \o <<<<"wheel">>>> \o RetryQueries(q)
            /\ IF RetryMarkers(q).raised
               THEN mk_pc' = "aborted" /\ UNCHANGED <<mk_count, mk_won>>
               ELSE /\ mk_count' = RetryMarkers(q).count
                    /\ mk_won' = RetrySelector(q)
                    /\ mk_pc' = AfterRetry(RetryMarkers(q).count)
    /\ UNCHANGED <<mk_idx, mk_visits>>
    /\ UNCHANGED <<runVars, dedupVars, panelVars, zoomVars, textVars,
                   extractVars, loopVars>>

ClickOps(clicked, i) == [n \in 1..Len(clicked) |-> <<"click", clicked[n], i>>]

\* scraper.py 452-472 for one index: the click, then the panel is parsed
\* into a record or the parse raises
MarkerVisit ==
    /\ mk_pc = "markers"
    /\ mk_idx < mk_count
    /\ \E q \in MarkerAnswers, c \in ClickAnswers :
         \E r \in {locate_and_click_marker(q, c, mk_idx)} :
            /\ mk_ops' = mk_ops \o ClickOps(r.clicked, mk_idx)
            /\ \E res \in IF r.ok THEN {"record", "parse_failed"}
                           ELSE {"click_failed"} :
                  mk_visits' = Append(mk_visits, <<mk_idx, res>>)
    /\ mk_idx' = mk_idx + 1
    /\ UNCHANGED <<mk_pc, mk_count, mk_won>>
    /\ UNCHANGED <<runVars, dedupVars, panelVars, zoomVars, textVars,
                   extractVars, loopVars>>

\* the marker loop is exhausted
MarkerEnd ==
    /\ mk_pc = "markers"
    /\ mk_idx >= mk_count
    /\ mk_pc' = "done"
    /\ UNCHANGED <<mk_count, mk_won, mk_idx, mk_ops, mk_visits>>
    /\ UNCHANGED <<runVars, dedupVars, panelVars, zoomVars, textVars,
                   extractVars, loopVars>>

MarkerNext ==
    \/ MarkerEnumerate
    \/ MarkerScrollRetry
    \/ MarkerVisit
    \/ MarkerEnd

MarkerSpec == MarkerInit /\ [][MarkerNext]_vars

OpsOf(kind) == {n \in 1..Len(mk_ops) : mk_ops[n][1] = kind}

(***************************************************************************)
(* C16: within a category every marker click is made on the collection of  *)
(* the selector that won the enumeration, never on that of another chain   *)
(* entry, even when the page's marker set changes between clicks.          *)
(***************************************************************************)
C16_WinningSelectorFixed ==
    \A n \in OpsOf("click") : mk_ops[n][2] = mk_won

(***************************************************************************)
(* C17: per category the scroll is performed at most once and only when    *)
(* the first pass over the marker selectors found no marker; the second    *)
(* pass follows the scroll at once, and after it the markers found are     *)
(* iterated or the category ends with none (also where the scroll or the   *)
(* second pass raised): no selector is counted again.                      *)
(***************************************************************************)
C17_ScrollOnceWhenNoneFound ==
    /\ Cardinality(OpsOf("wheel")) <= 1
    /\ \A w \in OpsOf("wheel") :
          /\ w = NSel + 1
          /\ \A n \in 1..NSel : mk_ops[n] \in {<<"enumerate", n, 0>>,
                                                <<"enumerate", n, -1>>}
          /\ \A n \in OpsOf("retry") : n > w /\ mk_ops[n][2] = n - w
    /\ OpsOf("retry") # {} => OpsOf("wheel") # {}
    /\ \A n \in OpsOf("enumerate") : n <= NSel /\ mk_ops[n][2] = n
    /\ \A n \in OpsOf("click") :
          \A e \in OpsOf("enumerate") \cup OpsOf("wheel") \cup OpsOf("retry") :
              e < n
    /\ mk_pc = "done" =>
          /\ Len(mk_visits) = mk_count
          /\ mk_count = 0 => OpsOf("wheel") # {}
    /\ mk_pc = "aborted" =>
          /\ OpsOf("wheel") # {}
          /\ mk_visits = <<>>

\* the first pass found nothing, the pass after the scroll found markers,
\* and they were iterated
C17_Witness ==
    /\ mk_pc = "done"
    /\ OpsOf("wheel") # {}
    /\ mk_count = MaxMarkers

(***************************************************************************)
(* C18: within a category the indices are visited in ascending order from  *)
(* 0, each once; a marker whose click fails is skipped without a record    *)
(* and without a second click attempt, and the loop goes on with the next  *)
(* index.                                                                  *)
(***************************************************************************)
C18_EachIndexOnce ==
    /\ \A n \in 1..Len(mk_visits) : mk_visits[n][1] = n - 1
    /\ \A a, b \in OpsOf("click") : mk_ops[a][3] = mk_ops[b][3] => a = b
    /\ \A a, b \in OpsOf("click") : a < b => mk_ops[a][3] < mk_ops[b][3]
    /\ mk_pc = "done" => Len(mk_visits) = mk_count

(***************************************************************************)
(* Properties of scrape_locations.                                         *)
(***************************************************************************)
Ended == pc = "done"

LastLog == IF logs = <<>> THEN "" ELSE logs[Len(logs)]

\* the visits in which a record was appended
RecordVisits == {v \in 1..Len(visits) : visits[v][3] = "record"}

C3_FailedFilterYieldsNothing ==
    /\ \A v \in RecordVisits : applied[visits[v][1]].how # "failed"
    /\ \A i \in 1..Len(applied) :
         (/\ applied[i].how = "failed"
          /\ pc = "exit_with"
          /\ ~CapReached(Len(data_records), max_items))
         => Len(applied) = Len(categories)

(***************************************************************************)
(* C4: on every exit path after the session was opened the session is      *)
(* closed when the function has ended, and no page operation is issued on  *)
(* a session that is not open.                                             *)
(***************************************************************************)
C4_SessionClosedOnExit ==
    /\ (Ended /\ session # "none") => session = "closed"
    /\ ~opAfterClose

\* an exception in the middle of the marker loop, after a record was taken
C4_Witness ==
    /\ Ended
    /\ session = "closed"
    /\ data_records # <<>>
    /\ LastLog = "Scraping failed"

(***************************************************************************)
(* C5: no exception escapes scrape_locations: whatever page operations     *)
(* fail, the call ends by returning a result with a non-empty log list.    *)
(***************************************************************************)
C5_AlwaysReturns == Ended => outcome = "returned" /\ logs # <<>>

\* the session could not even be started, and the call still returned
C5_Witness ==
    /\ Ended
    /\ session = "none"
    /\ outcome = "returned"
    /\ LastLog = "Scraping failed"
    /\ dataframe = <<>>

(***************************************************************************)
(* C6: when the navigation fails or no usable search field is found (the   *)
(* run ended after "Navigate" without ever logging the address search), no *)
(* category is entered - so no filter is applied and no marker clicked -   *)
(* and the call returns an empty record set together with the log.         *)
(***************************************************************************)
AbortedBeforeSearch ==
    /\ Ended
    /\ Contains(logs, "Navigate")
    /\ ~Contains(logs, "Search for address")

C6_AbortLeavesNothing ==
    AbortedBeforeSearch =>
        /\ entered = <<>> /\ applied = <<>> /\ visits = <<>>
        /\ data_records = <<>> /\ dataframe = <<>>
        /\ outcome = "returned"
        /\ session = "closed"

\* the early return of the search-box timeout
C6_Witness ==
    /\ AbortedBeforeSearch
    /\ LastLog = "Search box not found"
    /\ outcome = "returned"
    /\ dataframe = <<>>

(***************************************************************************)
(* C8: a record is never discarded for missing or unparsable fields: every *)
(* marker whose click succeeded and whose panel wait returned appended     *)
(* exactly one record, whatever the page answered.                         *)
(***************************************************************************)
C8_NoRecordDiscarded ==
    /\ \A v \in 1..Len(visits) : visits[v][3] # "parse_failed"
    /\ Len(data_records) = Cardinality(RecordVisits)

(***************************************************************************)
(* C9: records are appended in category-then-marker-index order, each      *)
(* tagged with the category that was active when it was captured, and the  *)
(* returned table is a subsequence of the collected list.  capturedAt is   *)
(* the position of the capture in the history of visits.                   *)
(***************************************************************************)
CapturedIn(r) == visits[r.capturedAt]

C9_OrderAndTag ==
    /\ \A k \in 1..Len(data_records) :
         /\ data_records[k].capturedAt \in RecordVisits
         /\ data_records[k].category = categories[CapturedIn(data_records[k])[1]]
    /\ \A k, l \in 1..Len(data_records) :
         k < l =>
           LET a == CapturedIn(data_records[k])
               b == CapturedIn(data_records[l])
           IN  /\ a[1] < b[1] \/ (a[1] = b[1] /\ a[2] < b[2])
               /\ data_records[k].capturedAt < data_records[l].capturedAt
    /\ Ended =>
         /\ \A i \in 1..Len(dataframe) :
              \E k \in 1..Len(data_records) : dataframe[i] = data_records[k]
         /\ \A i, j \in 1..Len(dataframe) :
              i < j => dataframe[i].capturedAt < dataframe[j].capturedAt

\* two categories, a duplicate dropped, and survivors of both categories
C9_Witness ==
    /\ Ended
    /\ Len(dataframe) >= 2
    /\ Len(dataframe) < Len(data_records)
    /\ dataframe[1].category # dataframe[Len(dataframe)].category

(***************************************************************************)
(* C10: a run with one category and an item cap of 1, on a reachable site  *)
(* with a usable search field and a marker whose click and panel read      *)
(* succeed, returns a non-empty table.  The site's part is read off the    *)
(* run: nothing it was asked failed, and if the category was entered one   *)
(* of its markers gave a record.                                           *)
(***************************************************************************)
SmokeSite ==
    /\ ~Contains(logs, "Scraping failed")
    /\ ~Contains(logs, "Search box not found")
    /\ entered # <<>> => RecordVisits # {}

C10_SmokeRunReturnsRows ==
    (Ended /\ Len(categories) = 1 /\ max_items = 1 /\ SmokeSite)
        => outcome = "returned" /\ dataframe # <<>>

(***************************************************************************)
(* C11: every table scrape_locations returns - with records, without       *)
(* records, on the early return and after an exception - has the columns   *)
(* name, phone, address, hours, latitude, longitude, distance in metres,   *)
(* distance in kilometres, category, capture time, in this order.          *)
(***************************************************************************)
C11_FixedColumnOrder ==
    (Ended /\ outcome = "returned") =>
        columns = <<"name", "phone", "address", "hours", "lat", "lng",
                    "dist_m", "dist_km", "category", "capturedAt">>

(***************************************************************************)
(* C19: the medical-facility category is always filtered through the       *)
(* search field and no panel button is queried or clicked for it; every    *)
(* other category tries the panel first and uses the search field only     *)
(* when no panel click succeeded.                                          *)
(***************************************************************************)
C19_SpecialCategoryBySearch ==
    \A i \in 1..Len(applied) :
        IF categories[i] = SpecialCategory
        THEN /\ ~applied[i].panelQueried
             /\ applied[i].clicks = 0
             /\ applied[i].how # "panel"
        ELSE /\ applied[i].panelQueried
             /\ applied[i].how = "search" => applied[i].clicks = 0
             /\ applied[i].clicks > 0 => applied[i].how = "panel"

\* a run that filtered an ordinary category by a panel click and then the
\* medical-facility category by the search field
C19_Witness ==
    /\ Ended
    /\ Len(applied) = 2
    /\ categories[2] = SpecialCategory
    /\ applied[1].how = "panel"
    /\ applied[2].how = "search"

(***************************************************************************)
(* C20: a marker-collection query that fails while a category's markers    *)
(* are counted, in the first pass or in the pass after the scroll, does    *)
(* not abort the run: the exception never leaves the marker phase for the  *)
(* handler of the run, which would drop the records collected so far and   *)
(* skip the remaining categories.                                          *)
(***************************************************************************)
C20_QueryFailureContained ==
    mk_pc = "aborted" =>
        ~ /\ mk_ops[Len(mk_ops)][1] \in {"enumerate", "retry"}
          /\ mk_ops[Len(mk_ops)][3] = -1

(***************************************************************************)
(* Properties of extract_hours and extract_address.                        *)
(***************************************************************************)
HourMinuteAt(line, i, n) ==
    AllDigits(line, i, n) /\ At(line, i + n, ":") /\ AllDigits(line, i + n + 1, 2)

\* two hour:minute pairs joined by a dash or a wave dash
TimeRange(line) ==
    \E i \in 1..Len(line), a \in 1..2, b \in 1..2 :
        /\ HourMinuteAt(line, i, a)
        /\ (At(line, i + a + 3, "-") \/ At(line, i + a + 3, "~"))
        /\ HourMinuteAt(line, i + a + 4, b)

\* AM or PM in any case
Meridiem(line) ==
    \E k \in 1..(Len(line) - 1) :
        line[k] \in {"a", "A", "p", "P"} /\ line[k + 1] \in {"m", "M"}

\* out is line i of ex_lines trimmed, for the first i of hits, and empty
\* when hits is empty
FirstOf(hits, out) ==
    IF hits = {} THEN out = <<>>
    ELSE \E i \in hits :
            /\ \A j \in hits : i <= j
            /\ Trimmed(ex_lines[i], out)

(***************************************************************************)
(* C21: extract_hours returns the first line that contains a time-range    *)
(* token (two hour:minute pairs joined by a dash or wave dash) or AM/PM,   *)
(* so a line "10:00-20:00" is returned; empty when no line has one.        *)
(***************************************************************************)
C21_FirstTimeRangeLine ==
    epc = "out" =>
        FirstOf({i \in 1..Len(ex_lines) :
                    TimeRange(ex_lines[i]) \/ Meridiem(ex_lines[i])},
                ex_out.hours)

\* C21 as amended: extract_hours returns, trimmed, the first line that
\* contains the character "ji" or, in any case, AM or PM; a line that holds
\* only a time range such as "10:00-20:00" is not returned; the result is
\* empty when no line qualifies.
C21_FirstHourCharacterLine ==
    epc = "out" =>
        FirstOf({i \in 1..Len(ex_lines) :
                    Contains(ex_lines[i], "ji") \/ Meridiem(ex_lines[i])},
                ex_out.hours)

\* a time-range line passed over for a later line with "ji"
C21_Witness ==
    /\ epc = "out"
    /\ Len(ex_lines) = 2
    /\ TimeRange(ex_lines[1])
    /\ ex_out.hours = <<"9", "ji">>

Division(line) == \E k \in 1..Len(line) : line[k] \in DivisionTokens

HasDigit(line) == \E k \in 1..Len(line) : line[k] \in Digits

(***************************************************************************)
(* C22: extract_address returns the first line that contains at least one  *)
(* administrative-division token and at least one digit; a line with a     *)
(* division token but no digit is not returned; empty when no line         *)
(* qualifies.                                                              *)
(***************************************************************************)
C22_DivisionAndDigit ==
    epc = "out" =>
        FirstOf({i \in 1..Len(ex_lines) :
                    Division(ex_lines[i]) /\ HasDigit(ex_lines[i])},
                ex_out.address)

\* C22 as amended: extract_address returns, trimmed, the first line that
\* contains at least one administrative-division token, whether or not it
\* holds a digit; the result is empty when no line holds such a token.
C22_FirstDivisionLine ==
    epc = "out" =>
        FirstOf({i \in 1..Len(ex_lines) : Division(ex_lines[i])},
                ex_out.address)

\* a line with a division token and no digit, returned ahead of a later
\* line that has both
C22_Witness ==
    /\ epc = "out"
    /\ Len(ex_lines) = 2
    /\ Division(ex_lines[1]) /\ ~HasDigit(ex_lines[1])
    /\ Division(ex_lines[2]) /\ HasDigit(ex_lines[2])
    /\ ex_out.address = <<"Z", "shi">>

(***************************************************************************)
(* C23: in every record parse_detail_panel produces, latitude and          *)
(* longitude are both present or both absent; when the map-centre query    *)
(* yields only one of the two values, neither is recorded.                 *)
(***************************************************************************)
C23_BothOrNeither ==
    Produced =>
        (panel_out[1].rec.lat = None <=> panel_out[1].rec.lng = None)

\* the normalized (name, address) pair of a row
NormPair(r) == <<normalize_key(r.name), normalize_key(r.address)>>

(***************************************************************************)
(* C24: the dedup never merges records of different facilities: every      *)
(* collected row whose normalized (name, address) pair differs from the    *)
(* pairs of all rows before it survives, also when name + address of two   *)
(* rows with different pairs is the same string.                           *)
(***************************************************************************)
C24_DistinctPairsSurvive ==
    dpc = "out" =>
        \A i \in 1..Len(rows) :
            (\A j \in 1..(i - 1) : NormPair(rows[j]) # NormPair(rows[i]))
            => \E k \in 1..Len(unique) : unique[k] = rows[i]

(***************************************************************************)
(* C25: every run eventually returns; in particular the zoom-in and        *)
(* zoom-out loops terminate, and the run goes on past the zoom block,      *)
(* even when the map's reported zoom never reaches the requested zoom.     *)
(***************************************************************************)
C25_ZoomBlockEnds == <>(lp_pc = "done")

====
